---- MODULE Spec2Model ----
(***************************************************************************)
(* Model of staticgalgen.py: discovery of the image files of a directory,  *)
(* per-image thumbnail derivation, assembly of the gallery entries, the    *)
(* rendered index.html, and the lightbox state machine of the embedded     *)
(* script.                                                                 *)
(***************************************************************************)
EXTENDS Integers, Sequences, FiniteSets, TLC

\* Largest number of entries in the input directory.
MaxFiles == 4
\* Largest number of times the build is run against the same directories.
MaxRuns == 2

(***************************************************************************)
(* File names are sequences of characters; code points order them.         *)
(***************************************************************************)
Ord(c) ==
    CASE c = "." -> 46
      [] c = "B" -> 66
      [] c = "G" -> 71
      [] c = "N" -> 78
      [] c = "P" -> 80
      [] c = "a" -> 97
      [] c = "b" -> 98
      [] c = "c" -> 99
      [] c = "d" -> 100
      [] c = "e" -> 101
      [] c = "f" -> 102
      [] c = "g" -> 103
      [] c = "i" -> 105
      [] c = "j" -> 106
      [] c = "n" -> 110
      [] c = "p" -> 112
      [] c = "t" -> 116
      [] c = "w" -> 119
      [] c = "x" -> 120
      [] OTHER -> 0

\* str.lower() on one character
LowerChar(c) ==
    CASE c = "B" -> "b"
      [] c = "G" -> "g"
      [] c = "N" -> "n"
      [] c = "P" -> "p"
      [] OTHER -> c

\* str.lower()
Lower(s) == [i \in 1..Len(s) |-> LowerChar(s[i])]

\* str < str, by code point, a proper prefix first (the order of sorted()
\* on the Paths of one directory)
RECURSIVE StrLess(_, _)
StrLess(a, b) ==
    IF Len(b) = 0 THEN FALSE
    ELSE IF Len(a) = 0 THEN TRUE
    ELSE IF Ord(Head(a)) # Ord(Head(b)) THEN Ord(Head(a)) < Ord(Head(b))
    ELSE StrLess(Tail(a), Tail(b))

\* str.rfind('.'), 1-based, 0 when there is no dot
RECURSIVE RFindDot(_)
RFindDot(name) ==
    IF Len(name) = 0 THEN 0
    ELSE IF name[Len(name)] = "." THEN Len(name)
    ELSE RFindDot(SubSeq(name, 1, Len(name) - 1))

\* PurePath.suffix: the text from the last dot on, empty when the name has
\* no dot, starts with its only dot, or ends with a dot
Suffix(name) ==
    LET i == RFindDot(name)
    IN IF 1 < i /\ i < Len(name) THEN SubSeq(name, i, Len(name)) ELSE <<>>

\* PurePath.stem: the name without its suffix
Stem(name) ==
    LET i == RFindDot(name)
    IN IF 1 < i /\ i < Len(name) THEN SubSeq(name, 1, i - 1) ELSE name

IMAGE_EXTENSIONS ==
    { <<".", "j", "p", "g">>, <<".", "j", "p", "e", "g">>, <<".", "p", "n", "g">>,
      <<".", "g", "i", "f">>, <<".", "w", "e", "b", "p">> }

(***************************************************************************)
(* Directory entries.  A regular file has a colour mode as decoded by the  *)
(* image library and may be unreadable (corrupt); a subdirectory has none. *)
(***************************************************************************)
NoMode == "-"

File(name, mode, corrupt) ==
    [name |-> name, isDir |-> FALSE, mode |-> mode, corrupt |-> corrupt]

SubDir(name) ==
    [name |-> name, isDir |-> TRUE, mode |-> NoMode, corrupt |-> FALSE]

Universe ==
    { File(<<"B", ".", "P", "N", "G">>, "RGBA", c) : c \in BOOLEAN }
    \cup { File(<<"a", ".", "j", "p", "g">>, "RGB", c) : c \in BOOLEAN }
    \cup { File(<<"c", ".", "p", "n", "g">>, "LA", c) : c \in BOOLEAN }
    \cup { File(<<"d", ".", "j", "p", "e", "g">>, "RGB", c) : c \in BOOLEAN }
    \cup { File(<<"g", ".", "g", "i", "f">>, "P", FALSE),
           File(<<"b", ".", "t", "x", "t">>, NoMode, TRUE),
           File(<<".", "p", "n", "g">>, "RGB", FALSE),
           SubDir(<<"e", ".", "w", "e", "b", "p">>) }

\* the listings a directory can hold: at most MaxFiles entries, names distinct
Listings ==
    { d \in SUBSET Universe :
        /\ Cardinality(d) <= MaxFiles
        /\ \A x, y \in d : x.name = y.name => x = y }

\* sorted(Path(directory).iterdir())
RECURSIVE Sorted(_)
Sorted(S) ==
    IF S = {} THEN <<>>
    ELSE LET m == CHOOSE x \in S : \A y \in S : y = x \/ StrLess(x.name, y.name)
         IN <<m>> \o Sorted(S \ {m})

RECURSIVE FilterExt(_)
FilterExt(files) ==
    IF files = <<>> THEN <<>>
    ELSE IF Lower(Suffix(Head(files).name)) \in IMAGE_EXTENSIONS
         THEN <<Head(files)>> \o FilterExt(Tail(files))
         ELSE FilterExt(Tail(files))

get_image_files(directory) == FilterExt(Sorted(directory))

(***************************************************************************)
(* create_thumbnail.  The encoder writes JPEG only from the modes below;   *)
(* any other mode handed to Image.save raises, as does opening a file the  *)
(* library cannot decode.                                                  *)
(***************************************************************************)
JpegModes == {"1", "L", "RGB", "RGBX", "CMYK", "YCbCr"}

None == [kind |-> "None", of |-> <<>>]
Raised == [kind |-> "raise", of |-> <<>>]
DataUri(name) == [kind |-> "data:image/jpeg;base64", of |-> name]

\* the mode of img after the RGBA branch
AfterComposite(mode) == IF mode = "RGBA" THEN "RGB" ELSE mode

\* the mode of the image handed to img.save, NoMode when Image.open raised
EncoderInput(e) == IF e.corrupt THEN NoMode ELSE AfterComposite(e.mode)

\* the body of the try block: the data URI, or Raised
ThumbnailBody(e) ==
    IF e.corrupt THEN Raised
    ELSE IF EncoderInput(e) \notin JpegModes THEN Raised
    ELSE DataUri(e.name)

\* create_thumbnail without its except clause: the exception leaves it
create_thumbnail_nocatch(e) == ThumbnailBody(e)

\* try: ... except Exception: return None
create_thumbnail(e) ==
    LET r == ThumbnailBody(e) IN IF r = Raised THEN None ELSE r

(***************************************************************************)
(* The output tree: the output directory, its images subdirectory, the     *)
(* copies in it and the text of index.html (a sequence of written          *)
(* documents, empty when the file does not exist).                         *)
(***************************************************************************)
NoTree == [exists |-> FALSE, imagesDir |-> FALSE, files |-> {}, index |-> <<>>]

StaleHtml == [title |-> "Old", cells |-> <<>>, images |-> <<>>]

StaleTree ==
    [exists |-> TRUE, imagesDir |-> TRUE,
     files |-> { [name |-> <<"a", ".", "j", "p", "g">>,
                  content |-> File(<<"a", ".", "j", "p", "g">>, "L", FALSE)] },
     index |-> <<StaleHtml>>]

InitialTrees == {NoTree, StaleTree}

Titles == {"Photo Gallery", "Trip"}

\* output_path.mkdir(parents=True, exist_ok=True); images_dir.mkdir(exist_ok=True)
MakeDirs(t) == [t EXCEPT !.exists = TRUE, !.imagesDir = TRUE]

\* shutil.copy2(img_path, images_dir / img_path.name): replaces a file of
\* the same name
Copy2(files, e) ==
    { f \in files : f.name # e.name } \cup { [name |-> e.name, content |-> e] }

\* the file opened in append mode: the new text follows the old
WriteTextAppend(old, html) == Append(old, html)

\* open(path, "w") ... f.write(html): the file holds the new text alone
WriteText(old, html) == <<html>>

\* f"images/{img_path.name}"
FullRef(name) == <<"images/">> \o name

\* the dict appended to gallery_items
GalleryItem(e, thumb, idx) ==
    [thumb |-> thumb, full |-> FullRef(e.name), name |-> Stem(e.name), index |-> idx]

\* if thumb_data: gallery_items.append(...)
AppendItem(items, e, thumb, idx) ==
    IF thumb # None THEN Append(items, GalleryItem(e, thumb, idx)) ELSE items

(***************************************************************************)
(* generate_html_template: the grid cells and the images array.            *)
(***************************************************************************)
ItemsHtml(items) ==
    [i \in 1..Len(items) |->
        [index |-> items[i].index, src |-> items[i].thumb, alt |-> items[i].name]]

\* the array built from the entries in reverse
ImagesJsonReversed(items) == [i \in 1..Len(items) |-> items[Len(items) + 1 - i].full]

ImagesJson(items) == [i \in 1..Len(items) |-> items[i].full]

generate_html_template(items, title) ==
    [title |-> title, cells |-> ItemsHtml(items), images |-> ImagesJson(items)]

(***************************************************************************)
(* The script of the page.                                                 *)
(***************************************************************************)
Undefined == <<"undefined">>

\* images[i]: undefined outside 0..length-1
ArrayGet(arr, i) == IF 0 <= i /\ i < Len(arr) THEN arr[i + 1] ELSE Undefined

\* the value standing for NaN (x % 0)
NaN == -1

\* JavaScript's %: the remainder has the sign of the dividend
JsMod(a, n) ==
    IF n = 0 THEN NaN
    ELSE IF a >= 0 THEN a % n
    ELSE 0 - ((0 - a) % n)

\* the step without the added images.length
NextIndexNoLength(cur, direction, n) == JsMod(cur + direction, n)

\* currentIndex = (currentIndex + direction + images.length) % images.length
NextIndex(cur, direction, n) == JsMod(cur + direction + n, n)

\* `${currentIndex + 1} / ${images.length}`
CounterText(cur, n) == <<cur + 1, n>>

Keys == {"Escape", "ArrowLeft", "ArrowRight", "Enter"}

(***************************************************************************)
(* State.                                                                  *)
(***************************************************************************)
VARIABLES
    inputIsDir,     \* os.path.isdir(args.input_dir)
    dir,            \* the entries of the input directory
    title,          \* args.title
    tree,           \* the output tree on disk
    startTree,      \* the output tree when the current run started
    runs,           \* number of the current run, from 1
    pc,             \* where main is
    images,         \* main: the discovered files
    idx,            \* generate_gallery_html: enumerate position
    gallery_items,  \* generate_gallery_html: the entries built so far
    encoderLog,     \* per processed image, what create_thumbnail did
    reported,       \* the printed image count, -1 before it is printed
    currentIndex,   \* script: currentIndex
    active,         \* script: the lightbox has class 'active'
    imgSrc,         \* script: src of #lightbox-image
    counter         \* script: text of #lightbox-counter

vars ==
    <<inputIsDir, dir, title, tree, startTree, runs, pc, images, idx,
      gallery_items, encoderLog, reported, currentIndex, active, imgSrc, counter>>

inputVars == <<inputIsDir, dir, title>>
buildVars == <<images, idx, gallery_items, encoderLog, reported>>
viewVars == <<currentIndex, active, imgSrc, counter>>

\* the document the browser has loaded
Page == tree.index[1]

Init ==
    /\ inputIsDir \in BOOLEAN
    /\ dir \in (IF inputIsDir THEN Listings ELSE {{}})
    /\ title \in Titles
    /\ tree \in InitialTrees
    /\ startTree = tree
    /\ runs = 1
    /\ pc = "start"
    /\ images = <<>>
    /\ idx = 0
    /\ gallery_items = <<>>
    /\ encoderLog = <<>>
    /\ reported = -1
    /\ currentIndex = 0
    /\ active = FALSE
    /\ imgSrc = <<>>
    /\ counter = <<>>

(***************************************************************************)
(* main                                                                    *)
(***************************************************************************)
\* if not os.path.isdir(args.input_dir): print; return
ValidateInput ==
    /\ pc = "start"
    /\ pc' = IF ~inputIsDir THEN "returned" ELSE "get_images"
    /\ UNCHANGED <<inputVars, tree, startTree, runs, buildVars, viewVars>>

\* the empty list let through
NoImagesNever(imgs) == FALSE

\* the test of `if not images:`
NoImages(imgs) == Len(imgs) = 0

\* images = get_image_files(args.input_dir); if not images: print; return
GetImages ==
    /\ pc = "get_images"
    /\ images' = get_image_files(dir)
    /\ pc' = IF NoImages(images') THEN "returned" ELSE "generate"
    /\ UNCHANGED <<inputVars, tree, startTree, runs, idx, gallery_items,
                   encoderLog, reported, viewVars>>

(***************************************************************************)
(* generate_gallery_html                                                   *)
(***************************************************************************)
\* the two mkdir calls and gallery_items = []
CreateDirs ==
    /\ pc = "generate"
    /\ tree' = MakeDirs(tree)
    /\ gallery_items' = <<>>
    /\ idx' = 0
    /\ pc' = "loop"
    /\ UNCHANGED <<inputVars, startTree, runs, images, encoderLog, reported,
                   viewVars>>

\* shutil.copy2 raises on a source that is a directory
CopyRaises(e) == e.isDir

\* one iteration of `for idx, img_path in enumerate(images)`
ProcessImage ==
    /\ pc = "loop"
    /\ idx < Len(images)
    /\ LET e == images[idx + 1]
           thumb == create_thumbnail(e)
       IN IF CopyRaises(e)
          THEN /\ pc' = "crashed"
               /\ UNCHANGED <<tree, idx, gallery_items, encoderLog>>
          ELSE /\ tree' = [tree EXCEPT !.files = Copy2(@, e)]
               /\ encoderLog' = Append(encoderLog,
                     [name |-> e.name, decoded |-> e.mode,
                      handed |-> EncoderInput(e), ok |-> thumb.kind = DataUri(e.name).kind])
               /\ IF thumb = Raised
                  THEN /\ pc' = "crashed"
                       /\ UNCHANGED <<idx, gallery_items>>
                  ELSE /\ gallery_items' = AppendItem(gallery_items, e, thumb, idx)
                       /\ idx' = idx + 1
                       /\ pc' = "loop"
    /\ UNCHANGED <<inputVars, startTree, runs, images, reported, viewVars>>

\* the count printed as "Images:"
ReportedCount(items) == Len(items)

\* after the loop: render, write index.html, print the summary; the page
\* is then opened in a browser
WriteHtml ==
    /\ pc = "loop"
    /\ idx = Len(images)
    /\ tree' = [tree EXCEPT
                  !.index = WriteText(@, generate_html_template(gallery_items, title))]
    /\ reported' = ReportedCount(gallery_items)
    /\ pc' = "done"
    /\ currentIndex' = 0
    /\ active' = FALSE
    /\ imgSrc' = <<>>
    /\ counter' = <<>>
    /\ UNCHANGED <<inputVars, startTree, runs, images, idx, gallery_items, encoderLog>>

\* the same command is run again on the same directories
Rerun ==
    /\ pc \in {"done", "returned", "crashed"}
    /\ runs < MaxRuns
    /\ runs' = runs + 1
    /\ startTree' = tree
    /\ pc' = "start"
    /\ images' = <<>>
    /\ idx' = 0
    /\ gallery_items' = <<>>
    /\ encoderLog' = <<>>
    /\ reported' = -1
    /\ currentIndex' = 0
    /\ active' = FALSE
    /\ imgSrc' = <<>>
    /\ counter' = <<>>
    /\ UNCHANGED <<inputVars, tree>>

(***************************************************************************)
(* The lightbox                                                            *)
(***************************************************************************)
\* showImage()
ShowImage(cur) ==
    /\ imgSrc' = ArrayGet(Page.images, cur)
    /\ counter' = CounterText(cur, Len(Page.images))

\* openLightbox(index)
openLightbox(index) ==
    /\ currentIndex' = index
    /\ ShowImage(index)
    /\ active' = TRUE

\* closeLightbox()
closeLightbox ==
    /\ active' = FALSE
    /\ UNCHANGED <<currentIndex, imgSrc, counter>>

\* changeImage(direction)
changeImage(direction) ==
    /\ currentIndex' = NextIndex(currentIndex, direction, Len(Page.images))
    /\ ShowImage(currentIndex')
    /\ UNCHANGED active

\* a click on the i-th grid cell (the open lightbox covers the grid)
ClickCell(i) ==
    /\ pc = "done"
    /\ ~active
    /\ openLightbox(Page.cells[i].index)
    /\ UNCHANGED <<inputVars, tree, startTree, runs, pc, buildVars>>

\* a click on the previous (-1) or next (1) control of the open lightbox
ClickNav(direction) ==
    /\ pc = "done"
    /\ active
    /\ changeImage(direction)
    /\ UNCHANGED <<inputVars, tree, startTree, runs, pc, buildVars>>

\* a click on the close control of the open lightbox
ClickClose ==
    /\ pc = "done"
    /\ active
    /\ closeLightbox
    /\ UNCHANGED <<inputVars, tree, startTree, runs, pc, buildVars>>

\* a click on the lightbox itself (e.target.id === 'lightbox')
ClickBackground ==
    /\ pc = "done"
    /\ active
    /\ closeLightbox
    /\ UNCHANGED <<inputVars, tree, startTree, runs, pc, buildVars>>

\* the keydown listener
KeyDown(key) ==
    /\ pc = "done"
    /\ IF ~active THEN UNCHANGED viewVars
       ELSE IF key = "Escape" THEN closeLightbox
       ELSE IF key = "ArrowLeft" THEN changeImage(-1)
       ELSE IF key = "ArrowRight" THEN changeImage(1)
       ELSE UNCHANGED viewVars
    /\ UNCHANGED <<inputVars, tree, startTree, runs, pc, buildVars>>

\* the number of grid cells on screen
CellCount == IF pc = "done" THEN Len(Page.cells) ELSE 0

Next ==
    \/ ValidateInput
    \/ GetImages
    \/ CreateDirs
    \/ ProcessImage
    \/ WriteHtml
    \/ Rerun
    \/ \E i \in 1..CellCount : ClickCell(i)
    \/ \E d \in {-1, 1} : ClickNav(d)
    \/ ClickClose
    \/ ClickBackground
    \/ \E k \in Keys : KeyDown(k)

Spec == Init /\ [][Next]_vars

(***************************************************************************)
(* Properties                                                              *)
(***************************************************************************)
\* the supported files of a directory, from the extension rule alone
HasImageExtension(name) == Lower(Suffix(name)) \in IMAGE_EXTENSIONS

\* the discovered images whose thumbnail body did not raise
Succeeded == { k \in 1..Len(images) : ThumbnailBody(images[k]) # Raised }

\* colour modes that carry an alpha channel
AlphaModes == {"RGBA", "LA", "PA", "RGBa", "La"}

\* names in strictly increasing code-point order
Increasing(names) ==
    \A i, j \in 1..Len(names) : i < j => StrLess(names[i], names[j])

\* C1: every gallery entry's index equals its position in the emitted entry
\* list, so the indices are 0..K-1 without gaps, whatever images failed.
C1_IndexIsPosition ==
    pc = "done" =>
        \A i \in 1..Len(gallery_items) : gallery_items[i].index = i - 1

\* C2: the index each grid cell passes to openLightbox addresses, in the
\* embedded images array, images/<filename> of the image whose thumbnail the
\* cell shows.
C2_CellOpensOwnImage ==
    pc = "done" =>
        \A i \in 1..Len(Page.cells) :
            ArrayGet(Page.images, Page.cells[i].index) = FullRef(Page.cells[i].src.of)

\* C3: the grid cells and the images array have the same length and the same
\* order, which is the code-point order of the file names, and they hold
\* exactly the discovered images whose thumbnail succeeded, each once.
C3_SameOrder ==
    pc = "done" =>
        LET cells == Page.cells
            names == [i \in 1..Len(cells) |-> cells[i].src.of]
        IN /\ Len(Page.images) = Len(cells)
           /\ \A i \in 1..Len(cells) : Page.images[i] = FullRef(names[i])
           /\ Increasing(names)
           /\ { names[i] : i \in 1..Len(names) } = { images[k].name : k \in Succeeded }

C3_Witness ==
    /\ pc = "done"
    /\ Len(Page.cells) >= 2
    /\ Len(Page.cells) < Len(images)

\* C4: a thumbnail failure never aborts the build: the build stops early
\* only on a copy that raises, and a finished build has processed every
\* image, has written index.html with one cell per success and none for a
\* failed image, and reports the number of successes.
C4_FailureIsolated ==
    /\ pc = "crashed" => CopyRaises(images[idx + 1])
    /\ pc = "done" =>
        /\ Len(encoderLog) = Len(images)
        /\ Len(tree.index) = 1
        /\ reported = Cardinality(Succeeded)
        /\ Len(Page.cells) = reported
        /\ \A k \in 1..Len(images) :
              k \notin Succeeded =>
                  \A i \in 1..Len(Page.cells) : Page.cells[i].src.of # images[k].name

C4_Witness ==
    /\ pc = "done"
    /\ reported >= 1
    /\ \E k \in 1..(Len(encoderLog) - 1) : ~encoderLog[k].ok /\ encoderLog[k + 1].ok
    /\ \E k \in 1..Len(encoderLog) : ~encoderLog[k].ok /\ encoderLog[k].handed = NoMode

\* C5: get_image_files returns, in file name order, exactly the entries with
\* a supported extension that are not subdirectories.
C5_DiscoveryExact ==
    pc \notin {"start", "get_images"} /\ inputIsDir =>
        /\ { images[k] : k \in 1..Len(images) } =
              { e \in dir : ~e.isDir /\ HasImageExtension(e.name) }
        /\ Increasing([k \in 1..Len(images) |-> images[k].name])

\* C6: with N images and the lightbox at position i in 0..N-1, next moves to
\* i+1, or to 0 from N-1, previous moves to i-1, or to N-1 from 0, and the
\* counter then shows the new position plus one, of N.
C6_NavigationWraps ==
    [][\A d \in {-1, 1} :
          (ClickNav(d) /\ currentIndex \in 0..(Len(Page.images) - 1)) =>
              LET n == Len(Page.images)
                  expected == IF d = 1
                              THEN (IF currentIndex = n - 1 THEN 0 ELSE currentIndex + 1)
                              ELSE (IF currentIndex = 0 THEN n - 1 ELSE currentIndex - 1)
              IN /\ currentIndex' = expected
                 /\ counter' = <<expected + 1, n>>
                 /\ imgSrc' = Page.images[expected + 1]]_vars

\* the lightbox is at a position no grid cell opens, so navigation put it there
C6_Witness ==
    /\ pc = "done"
    /\ active
    /\ Len(Page.images) >= 2
    /\ currentIndex = 0
    /\ counter = <<1, Len(Page.images)>>
    /\ \A i \in 1..Len(Page.cells) : Page.cells[i].index # 0

C8_Idempotent ==
    pc = "done" /\ runs >= 2 => tree = startTree

C8_Witness ==
    /\ pc = "done"
    /\ runs = 2
    /\ Cardinality(tree.files) >= 2
    /\ \E f \in tree.files : \E g \in StaleTree.files : f.name = g.name /\ f # g

\* C9: every decoded image whose mode carries an alpha channel reaches the
\* encoder without an alpha channel and yields a thumbnail.
C9_AlphaFlattened ==
    \A k \in 1..Len(encoderLog) :
        encoderLog[k].decoded \in AlphaModes /\ encoderLog[k].handed # NoMode =>
            /\ encoderLog[k].handed \notin AlphaModes
            /\ encoderLog[k].ok

\* C10: while the lightbox is active currentIndex is a position of the
\* images array and the displayed source is defined; a key pressed while the
\* lightbox is not active changes neither currentIndex nor the active flag.
C10_ViewState ==
    /\ [](pc = "done" /\ active =>
            /\ currentIndex \in 0..(Len(Page.images) - 1)
            /\ imgSrc # Undefined)
    /\ [][\A k \in Keys :
            KeyDown(k) /\ ~active => currentIndex' = currentIndex /\ active' = active]_vars

====
